---- MODULE Spec2Model ----
(***************************************************************************)
(* A model of the history engine of `lit` (seanhobeck/lit): the repository *)
(* index, the branch files, the commit objects, the shelving areas and the *)
(* working tree, and the command handlers of src/src/cli.c that act on     *)
(* them.  Every command is one action: it reads the repository from disk   *)
(* (setup), runs its handler to completion and leaves what the handler     *)
(* wrote.  A handler that exits or aborts part-way leaves what it had      *)
(* written up to that point.                                               *)
(*                                                                         *)
(* Indices are the C ones (0-based); Seq positions are index + 1.          *)
(* A size_t is represented by an integer: n >= 0 stands for n, and n < 0   *)
(* stands for 2^64 + n (what size_t arithmetic wraps to), so + and - are   *)
(* the integer ones and only the comparisons need care (ULt, ULe).         *)
(***************************************************************************)
EXTENDS Integers, Sequences, FiniteSets, TLC

VARIABLES lit, idx, readonly, names, heads, objs, shelved, tree, dirty, last,
          quiet, moves

\* the object cache seen by its CRCs: the CRCs of the changes of the commits
\* the branches list, the files that are under .lit/objects/diffs, and what
\* the last command on the cache returned and reported
VARIABLES referenced, objects, scan, folders

\* the tag files under .lit/refs/tags, by the name of the tag
VARIABLES tags

\* the line diff on its own: the lines of the prior and of the current file,
\* and what lcs made of them
VARIABLES old_data, new_data, traced

\* what is on disk: the repository, the working tree and the tags
disk == <<lit, idx, readonly, names, heads, objs, shelved, tree, tags>>

history == <<lit, idx, readonly, names, heads, objs, shelved, tree, dirty, last,
             quiet, moves, tags>>

cache == <<referenced, objects, scan, folders>>

differ == <<old_data, new_data, traced>>

vars == <<history, cache, differ>>

(* ------------------------------ bounds -------------------------------- *)

\* commits created over a run
MaxCommits == 3
\* diffs held by one shelving area
MaxShelved == 1
\* commits listed by one branch
MaxHistory == 3
\* how far below zero (past 2^64) a head may wrap
MaxWrap == 1
\* rollbacks, checkouts and branch commands over a run that change something
MaxMoves == 3
\* branch and tag commands that change something over a run that tags commits
MaxTagMoves == 5

BranchNames == {"origin", "dev"}
\* the names a file of .lit/refs/heads can have: a third branch is made only
\* in the runs that follow the branch list
HeadNames == BranchNames \cup {"fix"}
TagNames == {"v1"}
Paths == {"f", "g"}
Texts == {"a", "b"}
\* the contents a user gives a file: one line of text
Contents == {<<t>> : t \in Texts}
\* what the user writes: either text to f, the first text to g
Writes == {<<p, c>> \in Paths \X Contents : p = "g" => c = <<"a">>}

ABSENT == <<"absent">>
NONE == 0

(* ------------------------- size_t comparisons ------------------------- *)

ULt(a, b) ==
    IF a >= 0 /\ b >= 0 THEN a < b
    ELSE IF a >= 0 THEN TRUE
    ELSE IF b >= 0 THEN FALSE
    ELSE a < b

ULe(a, b) == a = b \/ ULt(a, b)

min(a, b) == IF ULt(a, b) THEN a ELSE b

(* ------------------------------ helpers ------------------------------- *)

Max2(a, b) == IF a > b THEN a ELSE b

RECURSIVE Perms(_)
\* the orders in which readdir may return the entries of a directory
Perms(S) ==
    IF S = {} THEN {<<>>}
    ELSE UNION {{<<x>> \o p : p \in Perms(S \ {x})} : x \in S}

\* dyna_get: the element at a C index, NONE when out of bounds
dyna_get(seq, i) == IF i >= 0 /\ i < Len(seq) THEN seq[i + 1] ELSE NONE

\* dyna_pop: remove the element at C index i and shift the rest down
dyna_pop(seq, i) ==
    IF i >= 0 /\ i < Len(seq)
    THEN SubSeq(seq, 1, i) \o SubSeq(seq, i + 2, Len(seq))
    ELSE seq

(* ----------------------- lines and materialisation -------------------- *)

\* an annotated line is <<marker, text>>, marker one of " ", "+", "-"
fforwardls(lines) ==
    LET keep == SelectSeq(lines, LAMBDA l : l[1] # "-")
    IN [k \in 1..Len(keep) |-> keep[k][2]]

finversels(lines) ==
    LET keep == SelectSeq(lines, LAMBDA l : l[1] # "+")
    IN [k \in 1..Len(keep) |-> keep[k][2]]

fcleanls(lines) ==
    LET keep == SelectSeq(lines, LAMBDA l : l[1] # "-")
    IN [k \in 1..Len(keep) |-> keep[k][2]]

RECURSIVE dp(_, _, _, _)
\* the table of lcs: rows m-1..1 and columns n-1..1 are filled, the rest is the
\* zero calloc left
dp(a, b, i, j) ==
    IF i < 1 \/ j < 1 \/ i > Len(a) - 1 \/ j > Len(b) - 1 THEN 0
    ELSE IF a[i + 1] = b[j + 1] THEN 1 + dp(a, b, i + 1, j + 1)
    ELSE Max2(dp(a, b, i + 1, j), dp(a, b, i, j + 1))

RECURSIVE backtrack(_, _, _, _)
backtrack(a, b, i, j) ==
    IF i < Len(a) /\ j < Len(b)
    THEN IF a[i + 1] = b[j + 1]
         THEN <<<<" ", a[i + 1]>>>> \o backtrack(a, b, i + 1, j + 1)
         ELSE IF dp(a, b, i + 1, j) >= dp(a, b, i, j + 1)
         THEN <<<<"-", a[i + 1]>>>> \o backtrack(a, b, i + 1, j)
         ELSE <<<<"+", b[j + 1]>>>> \o backtrack(a, b, i, j + 1)
    ELSE IF i < Len(a)
    THEN <<<<"-", a[i + 1]>>>> \o backtrack(a, b, i + 1, j)
    ELSE IF j < Len(b)
    THEN <<<<"+", b[j + 1]>>>> \o backtrack(a, b, i, j + 1)
    ELSE <<>>

\* a diff that only removes the prior lines and adds none
lcs_one_sided(a, b) == [k \in 1..Len(a) |-> <<"-", a[k]>>]

\* the annotated lines of the diff of a (prior) against b (current), where
\* lcs returns
lcs(a, b) == backtrack(a, b, 0, 0)

(* -------------------------------- diffs ------------------------------- *)

Diff(type, stored, new, lines) ==
    [type |-> type, stored_path |-> stored, new_path |-> new, lines |-> lines]

create_file_new_diff(path, content) ==
    Diff("file_new", path, path, [k \in 1..Len(content) |-> <<"+", content[k]>>])

create_file_deleted_diff(path, content) ==
    Diff("file_deleted", path, path, [k \in 1..Len(content) |-> <<"-", content[k]>>])

create_file_modified_diff(old_content, new_path, new_content) ==
    Diff("file_modified", new_path, new_path, lcs(old_content, new_content))

(* ------------------- applying a commit to the tree -------------------- *)

write(t, path, content) == [t EXCEPT ![path] = content]
remove(t, path) == [t EXCEPT ![path] = ABSENT]

apply_forward_diff(t, d) ==
    CASE d.type = "file_new" -> write(t, d.new_path, fforwardls(d.lines))
      [] d.type = "file_modified" ->
            write(IF d.new_path # d.stored_path THEN remove(t, d.stored_path) ELSE t,
                  d.new_path, fforwardls(d.lines))
      [] d.type = "file_deleted" -> remove(t, d.stored_path)
      [] OTHER -> t

apply_inverse_diff(t, d) ==
    CASE d.type = "file_new" -> remove(t, d.stored_path)
      [] d.type = "file_modified" ->
            write(IF d.new_path # d.stored_path THEN remove(t, d.new_path) ELSE t,
                  d.stored_path, finversels(d.lines))
      [] d.type = "file_deleted" -> write(t, d.stored_path, finversels(d.lines))
      [] OTHER -> t

RECURSIVE apply_diffs(_, _, _, _)
\* the diffs of a commit in storage order, i = 0 .. count-1, forward or inverse
apply_diffs(t, changes, i, fwd) ==
    IF i >= Len(changes) THEN t
    ELSE apply_diffs(IF fwd THEN apply_forward_diff(t, changes[i + 1])
                     ELSE apply_inverse_diff(t, changes[i + 1]),
                     changes, i + 1, fwd)

apply_forward_commit(t, c) == apply_diffs(t, objs[c], 0, TRUE)
apply_inverse_commit(t, c) == apply_diffs(t, objs[c], 0, FALSE)

RECURSIVE apply_steps(_, _)
\* a run of commit applications, each <<"fwd" | "inv", commit>>, in order
apply_steps(t, steps) ==
    IF steps = <<>> THEN t
    ELSE apply_steps(IF Head(steps)[1] = "fwd"
                     THEN apply_forward_commit(t, Head(steps)[2])
                     ELSE apply_inverse_commit(t, Head(steps)[2]),
                     Tail(steps))

(* ------------------------- the state on disk -------------------------- *)

\* .lit/refs/heads/<name>: a branch file; exists = FALSE when there is none
NoBranchFile == [exists |-> FALSE, head |-> 0, commits |-> <<>>]
\* .lit/objects/shelved/<name>/: exists = FALSE when there is no directory;
\* files holds one diff per <crc>.diff file, in the order they were written
NoShelf == [exists |-> FALSE, files |-> <<>>]
NoDiff == Diff("none", "", "", <<>>)

\* what the last command was, with its branch parameters, and how it ended:
\* res is "ok" (exit 0), "fail" (exit -1 or EXIT_FAILURE), "conflict" (exit 1)
\* or "abort" (killed by a signal)
Op(op, res, a1, a2) == [op |-> op, res |-> res, a1 |-> a1, a2 |-> a2]

\* no diff was asked for: ran is "no"; after lcs ran is "yes" and lines the
\* annotated lines, or ran is "abort" where the process was killed
NotTraced == [ran |-> "no", lines |-> <<>>]

\* no file of that name under .lit/refs/tags
NoTag == [exists |-> FALSE, commit_hash |-> NONE, branch_hash |-> <<>>]

Init ==
    /\ lit = FALSE
    /\ idx = 0
    /\ readonly = FALSE
    /\ names = <<>>
    /\ heads = [n \in HeadNames |-> NoBranchFile]
    /\ objs = <<>>
    /\ shelved = [n \in HeadNames |-> NoShelf]
    /\ tree = [p \in Paths |-> ABSENT]
    /\ dirty = {}
    /\ last = Op("none", "ok", "", "")
    /\ quiet = FALSE
    /\ moves = 0
    /\ tags = [t \in TagNames |-> NoTag]
    /\ old_data = <<>>
    /\ new_data = <<>>
    /\ traced = NotTraced
    /\ referenced = {}
    /\ objects = {}
    /\ folders = {}
    /\ scan = [result |-> "none", count |-> 0, code |-> 0]

\* create_branch: a branch with no commit, head 0
create_branch(name) == [name |-> name, head |-> 0, commits |-> <<>>]

read_branch(name) ==
    [name |-> name, head |-> heads[name].head, commits |-> heads[name].commits]

\* write_branch: the branch file of b with b's head and commit list
write_branch(h, b) ==
    [h EXCEPT ![b.name] = [exists |-> TRUE, head |-> b.head, commits |-> b.commits]]

\* the repository as read_repository builds it from the index
read_repository ==
    [readonly |-> readonly, idx |-> idx,
     branches |-> [i \in 1..Len(names) |-> read_branch(names[i])]]

\* setup succeeds when the index and every branch file it names can be read
\* and the active index designates a branch
setup ==
    /\ lit
    /\ \A i \in 1..Len(names) : heads[names[i]].exists
    /\ ULt(idx, Len(names))

active_branch == read_branch(names[idx + 1])

\* the C index of the first branch called name, -1 when there is none
branch_index(branches, name) ==
    LET hits == {i \in 1..Len(branches) : branches[i].name = name}
    IN IF hits = {} THEN -1 ELSE (CHOOSE i \in hits : \A k \in hits : i <= k) - 1

\* a command that ends before it writes anything
Fails(op, res, a1, a2) ==
    /\ last' = Op(op, res, "", "")
    /\ UNCHANGED <<lit, idx, readonly, names, heads, objs, shelved, tree, dirty>>

(* ------------------------------- init --------------------------------- *)

create_repository ==
    /\ lit' = TRUE
    /\ names' = <<"origin">>
    /\ heads' = write_branch(heads, create_branch("origin"))
    /\ idx' = 0
    /\ readonly' = FALSE
    /\ last' = Op("init", "ok", "", "")
    /\ UNCHANGED <<objs, shelved, tree, dirty>>

handle_init ==
    IF lit THEN Fails("init", "fail", "", "") ELSE create_repository

RECURSIVE sum_shelved(_)
sum_shelved(S) ==
    IF S = {} THEN 0
    ELSE LET n == CHOOSE n \in S : TRUE
         IN Len(shelved[n].files) + sum_shelved(S \ {n})

\* the shelved diffs of all branches
total_shelved == sum_shelved(HeadNames)

(* ------------------------- the user's editor -------------------------- *)

\* the user writes a file of the working tree, where `lit add` can take it;
\* dirty holds the paths changed since they were last committed, MaxShelved of
\* them at most
Edit(p, c) ==
    /\ setup /\ ~readonly
    /\ p \notin dirty
    /\ Cardinality(dirty) < MaxShelved
    /\ total_shelved < MaxShelved
    /\ Len(objs) < MaxCommits
    /\ <<p, c>> \in Writes
    /\ tree[p] # c
    /\ tree' = write(tree, p, c)
    /\ dirty' = dirty \cup {p}
    /\ last' = Op("edit", "ok", "", "")
    /\ UNCHANGED <<lit, idx, readonly, names, heads, objs, shelved>>

(* ---------------------------- add, delete ----------------------------- *)

first_match(changes, filename) ==
    LET hits == {j \in 1..Len(changes) :
                    /\ changes[j].new_path = filename
                    /\ changes[j].type \in {"file_modified", "file_new"}}
    IN IF hits = {} THEN NoDiff
       ELSE changes[CHOOSE j \in hits : \A k \in hits : j <= k]

RECURSIVE find_recent_commit_it(_, _, _, _)
\* the outer loop, iter = length .. 1; the break leaves the inner loop only
find_recent_commit_it(commits, filename, iter, recent) ==
    IF iter = 0 THEN recent
    ELSE LET m == first_match(objs[commits[iter]], filename)
         IN find_recent_commit_it(commits, filename, iter - 1,
                                  IF m # NoDiff THEN m ELSE recent)

find_recent_commit(branch, filename) ==
    find_recent_commit_it(branch.commits, filename, Len(branch.commits), NoDiff)

write_to_shelved(sh, branch_name, diff) ==
    [sh EXCEPT ![branch_name] =
        [exists |-> TRUE, files |-> Append(sh[branch_name].files, diff)]]

\* the files of the shelving area of a branch, in the order readdir gives them
collect_shelved(branch_name) ==
    LET files == shelved[branch_name].files
    IN {[k \in 1..Len(files) |-> files[o[k]]] : o \in Perms(1..Len(files))}

Shelve(op, filename, diff, t) ==
    /\ total_shelved < MaxShelved
    /\ Cardinality(dirty \cup {filename}) <= MaxShelved
    /\ Len(objs) < MaxCommits
    /\ shelved' = write_to_shelved(shelved, active_branch.name, diff)
    /\ tree' = t
    /\ dirty' = dirty \cup {filename}
    /\ last' = Op(op, "ok", "", "")
    /\ UNCHANGED <<lit, idx, readonly, names, heads, objs>>

modified_inode(old_filename, new_filename) ==
    LET most_recent_change == find_recent_commit(active_branch, old_filename)
        original_lines == fcleanls(most_recent_change.lines)
    IN IF most_recent_change = NoDiff \/ tree[new_filename] = ABSENT
       THEN Fails("add", "fail", "", "")
       ELSE Shelve("add", new_filename,
                   [create_file_modified_diff(original_lines, new_filename,
                                              tree[new_filename])
                        EXCEPT !.stored_path = old_filename],
                   tree)

add_delete_inode(filename, delete) ==
    IF tree[filename] = ABSENT
    THEN Fails(IF delete THEN "delete" ELSE "add",
               IF delete THEN "ok" ELSE "fail", "", "")
    ELSE IF delete
    THEN Shelve("delete", filename,
                create_file_deleted_diff(filename, tree[filename]),
                remove(tree, filename))
    ELSE Shelve("add", filename, create_file_new_diff(filename, tree[filename]), tree)

\* handle_add without the read-only test
handle_add_unguarded(filename) ==
    IF ~setup THEN Fails("add", "fail", "", "")
    ELSE LET diff == find_recent_commit(active_branch, filename)
         IN IF diff # NoDiff THEN modified_inode(diff.stored_path, filename)
            ELSE add_delete_inode(filename, FALSE)

handle_add(filename) ==
    IF ~setup \/ readonly THEN Fails("add", "fail", "", "")
    ELSE LET diff == find_recent_commit(active_branch, filename)
         IN IF diff # NoDiff THEN modified_inode(diff.stored_path, filename)
            ELSE add_delete_inode(filename, FALSE)

handle_delete(filename) ==
    IF ~setup \/ readonly THEN Fails("delete", "fail", "", "")
    ELSE add_delete_inode(filename, TRUE)

(* ------------------------------- commit ------------------------------- *)

\* the paths the diffs of a commit touch
touched(changes) ==
    {changes[k].stored_path : k \in 1..Len(changes)}
        \cup {changes[k].new_path : k \in 1..Len(changes)}

\* handle_commit leaving the shelving directory in place
handle_commit_keeps_directory ==
    IF ~setup \/ readonly THEN Fails("commit", "fail", "", "")
    ELSE IF shelved[active_branch.name].files = <<>>
    THEN /\ last' = Op("commit", "fail", "no diffs to commit; nothing stashed.", "")
         /\ UNCHANGED <<lit, idx, readonly, names, heads, objs, shelved, tree, dirty>>
    ELSE /\ Len(objs) < MaxCommits
         /\ \E changes \in collect_shelved(active_branch.name) :
              LET commit == Len(objs) + 1
                  pushed == Append(active_branch.commits, commit)
              IN /\ objs' = Append(objs, changes)
                 /\ heads' = write_branch(heads,
                        [active_branch EXCEPT !.commits = pushed,
                                              !.head = Len(pushed) - 1])
                 /\ shelved' = [shelved EXCEPT ![active_branch.name].files = <<>>]
                 /\ dirty' = dirty \ touched(changes)
                 /\ last' = Op("commit", "ok", "", "")
                 /\ UNCHANGED <<lit, idx, readonly, names, tree>>

\* handle_commit without the test for an empty shelf
handle_commit_of_nothing ==
    IF ~setup \/ readonly THEN Fails("commit", "fail", "", "")
    ELSE /\ Len(objs) < MaxCommits
         /\ \E changes \in collect_shelved(active_branch.name) :
              LET commit == Len(objs) + 1
                  pushed == Append(active_branch.commits, commit)
              IN /\ objs' = Append(objs, changes)
                 /\ heads' = write_branch(heads,
                        [active_branch EXCEPT !.commits = pushed,
                                              !.head = Len(pushed) - 1])
                 /\ shelved' = [shelved EXCEPT ![active_branch.name] = NoShelf]
                 /\ dirty' = dirty \ touched(changes)
                 /\ last' = Op("commit", "ok", "", "")
                 /\ UNCHANGED <<lit, idx, readonly, names, tree>>

handle_commit ==
    IF ~setup \/ readonly THEN Fails("commit", "fail", "", "")
    ELSE IF shelved[active_branch.name].files = <<>>
    THEN /\ last' = Op("commit", "fail", "no diffs to commit; nothing stashed.", "")
         /\ UNCHANGED <<lit, idx, readonly, names, heads, objs, shelved, tree, dirty>>
    ELSE /\ Len(objs) < MaxCommits
         /\ \E changes \in collect_shelved(active_branch.name) :
              LET commit == Len(objs) + 1
                  pushed == Append(active_branch.commits, commit)
              IN /\ objs' = Append(objs, changes)
                 /\ heads' = write_branch(heads,
                        [active_branch EXCEPT !.commits = pushed,
                                              !.head = Len(pushed) - 1])
                 /\ shelved' = [shelved EXCEPT ![active_branch.name] = NoShelf]
                 /\ dirty' = dirty \ touched(changes)
                 /\ last' = Op("commit", "ok", "", "")
                 /\ UNCHANGED <<lit, idx, readonly, names, tree>>

(* ------------------------- rollback, checkout ------------------------- *)

\* the C index of the first commit of the list with the hash of c, -1 if none
find_index_commit(commits, c) ==
    LET hits == {i \in 1..Len(commits) : commits[i] = c}
    IN IF hits = {} THEN -1 ELSE (CHOOSE i \in hits : \A k \in hits : i <= k) - 1

\* for (i = hi; i > lo; i--) inverse-apply commits[i]; a step on NONE is the
\* dereference of the null pointer dyna_get gives outside the list
reverse_range(commits, hi, lo) ==
    IF ~ULt(lo, hi) THEN <<>>
    ELSE IF hi < 0 \/ hi >= Len(commits) THEN <<<<"inv", NONE>>>>
    ELSE [k \in 1..(hi - lo) |-> <<"inv", commits[hi - k + 2]>>]

\* for (i = lo; i <= hi; i++) forward-apply commits[i], hi inside the list
forward_range(commits, lo, hi) ==
    IF lo < 0 \/ hi < lo THEN <<>>
    ELSE [k \in 1..(hi - lo + 1) |-> <<"fwd", commits[lo + k]>>]

\* rollback_op stopping one commit short of the target
rollback_op_short(branch, target_idx) ==
    reverse_range(branch.commits, branch.head, target_idx + 1)

rollback_op(branch, target_idx) == reverse_range(branch.commits, branch.head, target_idx)

checkout_op(branch, target_idx) == forward_range(branch.commits, branch.head + 1, target_idx)

crashes(steps) == \E k \in 1..Len(steps) : steps[k][2] = NONE

\* the steps that ran: all of them, or those before the crash
ran(steps) ==
    IF crashes(steps)
    THEN SubSeq(steps, 1, (CHOOSE k \in 1..Len(steps) :
                              /\ steps[k][2] = NONE
                              /\ \A m \in 1..(k - 1) : steps[m][2] # NONE) - 1)
    ELSE steps

\* handle_cr_move leaving the repository read-only wherever it lands
handle_cr_move_readonly(op, hash, hard) ==
    IF ~setup THEN Fails(op, "fail", "", "")
    ELSE LET target_idx == find_index_commit(active_branch.commits, hash)
             steps == IF op = "rollback" THEN rollback_op(active_branch, target_idx)
                      ELSE checkout_op(active_branch, target_idx)
         IN IF target_idx = -1 THEN Fails(op, "fail", "", "")
            ELSE IF op = "rollback" /\ ULe(active_branch.head, target_idx)
            THEN Fails(op, "fail", "", "")
            ELSE IF op = "checkout" /\ ULe(target_idx, active_branch.head)
            THEN Fails(op, "fail", "", "")
            ELSE IF crashes(steps)
            THEN /\ tree' = apply_steps(tree, ran(steps))
                 /\ last' = Op(op, "abort", "", "")
                 /\ UNCHANGED <<lit, idx, readonly, names, heads, objs, shelved, dirty>>
            ELSE /\ tree' = apply_steps(tree, steps)
                 /\ heads' = write_branch(heads, [active_branch EXCEPT !.head = target_idx])
                 /\ readonly' = TRUE
                 /\ shelved' = IF hard
                               THEN [shelved EXCEPT ![active_branch.name].files = <<>>]
                               ELSE shelved
                 /\ last' = Op(op, "ok", "", "")
                 /\ UNCHANGED <<lit, idx, names, objs, dirty>>

\* handle_cr_move accepting a rollback to the commit the head is on
handle_cr_move_to_head(op, hash, hard) ==
    IF ~setup THEN Fails(op, "fail", "", "")
    ELSE LET target_idx == find_index_commit(active_branch.commits, hash)
             steps == IF op = "rollback" THEN rollback_op(active_branch, target_idx)
                      ELSE checkout_op(active_branch, target_idx)
         IN IF target_idx = -1 THEN Fails(op, "fail", "", "")
            ELSE IF op = "rollback" /\ ULt(active_branch.head, target_idx)
            THEN Fails(op, "fail", "", "")
            ELSE IF op = "checkout" /\ ULe(target_idx, active_branch.head)
            THEN Fails(op, "fail", "", "")
            ELSE IF crashes(steps)
            THEN /\ tree' = apply_steps(tree, ran(steps))
                 /\ last' = Op(op, "abort", "", "")
                 /\ UNCHANGED <<lit, idx, readonly, names, heads, objs, shelved, dirty>>
            ELSE /\ tree' = apply_steps(tree, steps)
                 /\ heads' = write_branch(heads, [active_branch EXCEPT !.head = target_idx])
                 /\ readonly' = (target_idx # Len(active_branch.commits) - 1)
                 /\ shelved' = IF hard
                               THEN [shelved EXCEPT ![active_branch.name].files = <<>>]
                               ELSE shelved
                 /\ last' = Op(op, "ok", "", "")
                 /\ UNCHANGED <<lit, idx, names, objs, dirty>>

handle_cr_move(op, hash, hard) ==
    IF ~setup THEN Fails(op, "fail", "", "")
    ELSE LET target_idx == find_index_commit(active_branch.commits, hash)
             steps == IF op = "rollback" THEN rollback_op(active_branch, target_idx)
                      ELSE checkout_op(active_branch, target_idx)
         IN IF target_idx = -1 THEN Fails(op, "fail", "", "")
            ELSE IF op = "rollback" /\ ULe(active_branch.head, target_idx)
            THEN Fails(op, "fail", "", "")
            ELSE IF op = "checkout" /\ ULe(target_idx, active_branch.head)
            THEN Fails(op, "fail", "", "")
            ELSE IF crashes(steps)
            THEN /\ tree' = apply_steps(tree, ran(steps))
                 /\ last' = Op(op, "abort", "", "")
                 /\ UNCHANGED <<lit, idx, readonly, names, heads, objs, shelved, dirty>>
            ELSE /\ tree' = apply_steps(tree, steps)
                 /\ heads' = write_branch(heads, [active_branch EXCEPT !.head = target_idx])
                 /\ readonly' = (target_idx # Len(active_branch.commits) - 1)
                 /\ shelved' = IF hard
                               THEN [shelved EXCEPT ![active_branch.name].files = <<>>]
                               ELSE shelved
                 /\ last' = Op(op, "ok", "", "")
                 /\ UNCHANGED <<lit, idx, names, objs, dirty>>

(* --------------------------- common ancestor -------------------------- *)

RECURSIVE walk(_, _, _, _)
\* the loop of find_common_ancestor from positions i, j.  Where the hashes
\* differ the code compares the two timestamp pointers (char*), two separate
\* heap blocks whose order the C standard leaves unspecified: either pointer
\* may be the one that moves.  The result is the set of commits the loop can
\* end on, NONE when it runs off a list.
walk(commits1, commits2, i, j) ==
    IF i < 0 \/ j < 0 THEN {NONE}
    ELSE IF commits1[i + 1] = commits2[j + 1] THEN {commits1[i + 1]}
    ELSE walk(commits1, commits2, i - 1, j) \cup walk(commits1, commits2, i, j - 1)

find_common_ancestor(branch1, branch2) ==
    IF Len(branch1.commits) = 0 \/ Len(branch2.commits) = 0 THEN {NONE}
    ELSE walk(branch1.commits, branch2.commits,
              Len(branch1.commits) - 1, Len(branch2.commits) - 1)

(* ------------------------------ branches ------------------------------ *)

\* create_branch_repository copying the commits up to the head of the source only
create_branch_repository_to_head(name, from_name) ==
    LET branches == read_repository.branches
        pushed == Append(branches, create_branch(name))
        from_idx == branch_index(pushed, from_name)
        from_branch == pushed[from_idx + 1]
        branch == [create_branch(name) EXCEPT
                       !.commits = SubSeq(from_branch.commits, 1,
                                          min(from_branch.head + 1, Len(from_branch.commits))),
                                              !.head = from_branch.head]
    IN IF branch_index(branches, name) # -1 \/ from_idx = -1
       THEN Fails("create-branch", "fail", name, from_name)
       ELSE /\ names' = Append(names, name)
            /\ heads' = write_branch(heads, branch)
            /\ last' = Op("create-branch", "ok", name, from_name)
            /\ UNCHANGED <<lit, idx, readonly, objs, shelved, tree, dirty>>

create_branch_repository(name, from_name) ==
    LET branches == read_repository.branches
        pushed == Append(branches, create_branch(name))
        from_idx == branch_index(pushed, from_name)
        from_branch == pushed[from_idx + 1]
        branch == [create_branch(name) EXCEPT !.commits = from_branch.commits,
                                              !.head = from_branch.head]
    IN IF branch_index(branches, name) # -1 \/ from_idx = -1
       THEN Fails("create-branch", "fail", name, from_name)
       ELSE /\ names' = Append(names, name)
            /\ heads' = write_branch(heads, branch)
            /\ last' = Op("create-branch", "ok", name, from_name)
            /\ UNCHANGED <<lit, idx, readonly, objs, shelved, tree, dirty>>

handle_create_branch(name, from_name) ==
    IF ~setup THEN Fails("create-branch", "fail", name, from_name)
    ELSE create_branch_repository(name, from_name)

\* switch_steps leaving the first commit of an unrelated current branch in
\* the working tree
switch_steps_keeps_first(current, target, ancestor) ==
    LET length == Len(target.commits)
        ancestor_idx == find_index_commit(current.commits, ancestor)
        head_idx == find_index_commit(target.commits, ancestor)
    IN IF ancestor = NONE
       THEN (IF Len(current.commits) > 0
             THEN rollback_op(current, 0)
             ELSE <<>>)
            \o (IF length > 0
                THEN forward_range(target.commits, 0,
                                   IF ULt(target.head, length) THEN target.head
                                   ELSE length - 1)
                ELSE <<>>)
       ELSE (IF ancestor_idx >= 0 /\ ULt(ancestor_idx, current.head)
             THEN reverse_range(current.commits, current.head, ancestor_idx)
             ELSE <<>>)
            \o (IF head_idx >= 0
                THEN forward_range(target.commits, head_idx + 1,
                                   IF target.head < length THEN target.head
                                   ELSE length - 1)
                ELSE <<>>)

\* what switch_branch_repository applies to the working tree to leave current
\* for target, given the ancestor find_common_ancestor returned
switch_steps(current, target, ancestor) ==
    LET length == Len(target.commits)
        ancestor_idx == find_index_commit(current.commits, ancestor)
        head_idx == find_index_commit(target.commits, ancestor)
    IN IF ancestor = NONE
       THEN (IF Len(current.commits) > 0
             THEN rollback_op(current, 0) \o <<<<"inv", current.commits[1]>>>>
             ELSE <<>>)
            \o (IF length > 0
                THEN forward_range(target.commits, 0,
                                   IF ULt(target.head, length) THEN target.head
                                   ELSE length - 1)
                ELSE <<>>)
       ELSE (IF ancestor_idx >= 0 /\ ULt(ancestor_idx, current.head)
             THEN reverse_range(current.commits, current.head, ancestor_idx)
             ELSE <<>>)
            \o (IF head_idx >= 0
                THEN forward_range(target.commits, head_idx + 1,
                                   IF target.head < length THEN target.head
                                   ELSE length - 1)
                ELSE <<>>)

\* switch_branch_repository on the branches in memory, the active index being
\* cur_idx; keep is what the caller leaves of the branch files
switch_branch_repository(op, branches, cur_idx, name, keep) ==
    LET target_idx == branch_index(branches, name)
        target == branches[target_idx + 1]
        current == branches[cur_idx + 1]
    IN IF target_idx = -1
       THEN /\ last' = Op(op, "fail", name, "")
            /\ heads' = keep
            /\ UNCHANGED <<lit, idx, readonly, names, objs, shelved, tree, dirty>>
       ELSE IF cur_idx = target_idx
       THEN /\ last' = Op(op, "ok", name, "")
            /\ heads' = keep
            /\ UNCHANGED <<lit, idx, readonly, names, objs, shelved, tree, dirty>>
       ELSE IF ~ULt(cur_idx, Len(branches))
       THEN \* assert(branch1 != 0x0) in find_common_ancestor
            /\ last' = Op(op, "abort", name, "")
            /\ heads' = keep
            /\ UNCHANGED <<lit, idx, readonly, names, objs, shelved, tree, dirty>>
       ELSE \E ancestor \in find_common_ancestor(current, target) :
              LET steps == switch_steps(current, target, ancestor)
              IN /\ tree' = apply_steps(tree, ran(steps))
                 /\ heads' = keep
                 /\ UNCHANGED <<lit, readonly, objs, shelved, dirty>>
                 /\ IF crashes(steps)
                    THEN /\ last' = Op(op, "abort", name, "")
                         /\ UNCHANGED <<idx, names>>
                    ELSE /\ last' = Op(op, "ok", name, "")
                         /\ idx' = target_idx
                         /\ names' = [i \in 1..Len(branches) |-> branches[i].name]

handle_switch_branch(name) ==
    IF ~setup THEN Fails("switch", "fail", name, "")
    ELSE switch_branch_repository("switch", read_repository.branches, idx, name, heads)

handle_delete_branch(name) ==
    LET branches == read_repository.branches
        i == branch_index(branches, name)
        popped == dyna_pop(branches, i)
        removed == [heads EXCEPT ![name] = NoBranchFile]
    IN IF ~setup \/ name = "origin" \/ i = -1
       THEN Fails("delete-branch", "fail", name, "")
       ELSE IF active_branch.name = name
       THEN switch_branch_repository("delete-branch", popped, idx, "origin", removed)
       ELSE /\ heads' = removed
            /\ names' = [k \in 1..Len(popped) |-> popped[k].name]
            /\ last' = Op("delete-branch", "ok", name, "")
            /\ UNCHANGED <<lit, idx, readonly, objs, shelved, tree, dirty>>

(* ------------------------------- rebase ------------------------------- *)

is_conflicting_commits(commit1, commit2) ==
    \E i \in 1..Len(objs[commit1]), j \in 1..Len(objs[commit2]) :
        objs[commit1][i].new_path = objs[commit2][j].new_path

\* is_rebase_possible comparing from the second commit after the ancestor on
is_rebase_possible_skips_first(destination, source, ancestor) ==
    LET ancestor_idx == find_index_commit(destination.commits, ancestor)
        bound == min(Len(source.commits), Len(destination.commits))
    IN /\ ancestor # NONE
       /\ ancestor_idx # -1
       /\ ~\E i \in 0..(bound - 1) :
              /\ i >= ancestor_idx + 2
              /\ ULt(i, source.head)
              /\ is_conflicting_commits(source.commits[i + 1],
                                        destination.commits[i + 1])

is_rebase_possible(destination, source, ancestor) ==
    LET ancestor_idx == find_index_commit(destination.commits, ancestor)
        bound == min(Len(source.commits), Len(destination.commits))
    IN /\ ancestor # NONE
       /\ ancestor_idx # -1
       /\ ~\E i \in 0..(bound - 1) :
              /\ i >= ancestor_idx + 1
              /\ ULt(i, source.head)
              /\ is_conflicting_commits(source.commits[i + 1],
                                        destination.commits[i + 1])

\* add_commit_branch putting the commit in front of the branch's list
add_commit_branch_in_front(commit, branch) ==
    [branch EXCEPT !.commits = <<commit>> \o branch.commits]

\* add_commit_branch: the commit goes to the end of the branch's list
add_commit_branch(commit, branch) ==
    [branch EXCEPT !.commits = Append(branch.commits, commit)]

RECURSIVE add_commits(_, _, _)
\* for (i = from; i < count; i++) add_commit_branch(source->commits[i], destination)
add_commits(source, from, destination) ==
    IF from >= Len(source.commits) THEN destination
    ELSE add_commits(source, from + 1,
                     add_commit_branch(source.commits[from + 1], destination))

\* rebase_branch rewinding the destination head when it reports a conflict
rebase_branch_conflict_moves_head(destination_branch_name, source_branch_name) ==
    LET branches == read_repository.branches
        di == branch_index(branches, destination_branch_name)
        si == branch_index(branches, source_branch_name)
        destination == branches[di + 1]
        source == branches[si + 1]
    IN IF di = -1 \/ si = -1
       THEN Fails("rebase", "fail", source_branch_name, destination_branch_name)
       ELSE \E ancestor \in find_common_ancestor(destination, source) :
          LET source_ancestor_idx == find_index_commit(source.commits, ancestor)
              rebase_count == source.head - source_ancestor_idx
              added == add_commits(source, source_ancestor_idx + 1, destination)
              target == added.head + rebase_count
              target_idx == find_index_commit(added.commits, added.commits[target + 1])
              steps == checkout_op(added, target_idx)
              active == (destination.name = active_branch.name)
          IN IF ~is_rebase_possible(destination, source, ancestor)
             THEN /\ last' = Op("rebase", "conflict", source.name, destination.name)
                  /\ heads' = write_branch(heads, [destination EXCEPT !.head = 0])
                  /\ UNCHANGED <<lit, idx, readonly, names, objs, shelved,
                                 tree, dirty>>
             ELSE IF \/ (si = di /\ source_ancestor_idx + 1 < Len(source.commits))
                     \/ (active /\ (target < 0 \/ target >= Len(added.commits)))
             THEN \* the loop feeds on its own list, or checkout is handed a
                  \* commit from outside the list: the process dies, nothing written
                  /\ last' = Op("rebase", "abort", source.name, destination.name)
                  /\ UNCHANGED <<lit, idx, readonly, names, heads, objs, shelved,
                                 tree, dirty>>
             ELSE /\ Len(added.commits) <= MaxHistory
                  /\ added.head + rebase_count >= -MaxWrap
                  /\ tree' = IF active THEN apply_steps(tree, steps) ELSE tree
                  /\ heads' = write_branch(heads,
                        [added EXCEPT !.head = IF active THEN target_idx
                                               ELSE added.head + rebase_count])
                  /\ last' = Op("rebase", "ok", source.name, destination.name)
                  /\ UNCHANGED <<lit, idx, readonly, names, objs, shelved, dirty>>

rebase_branch(destination_branch_name, source_branch_name) ==
    LET branches == read_repository.branches
        di == branch_index(branches, destination_branch_name)
        si == branch_index(branches, source_branch_name)
        destination == branches[di + 1]
        source == branches[si + 1]
    IN IF di = -1 \/ si = -1
       THEN Fails("rebase", "fail", source_branch_name, destination_branch_name)
       ELSE \E ancestor \in find_common_ancestor(destination, source) :
          LET source_ancestor_idx == find_index_commit(source.commits, ancestor)
              rebase_count == source.head - source_ancestor_idx
              added == add_commits(source, source_ancestor_idx + 1, destination)
              target == added.head + rebase_count
              target_idx == find_index_commit(added.commits, added.commits[target + 1])
              steps == checkout_op(added, target_idx)
              active == (destination.name = active_branch.name)
          IN IF ~is_rebase_possible(destination, source, ancestor)
             THEN /\ last' = Op("rebase", "conflict", source.name, destination.name)
                  /\ UNCHANGED <<lit, idx, readonly, names, heads, objs, shelved,
                                 tree, dirty>>
             ELSE IF \/ (si = di /\ source_ancestor_idx + 1 < Len(source.commits))
                     \/ (active /\ (target < 0 \/ target >= Len(added.commits)))
             THEN \* the loop feeds on its own list, or checkout is handed a
                  \* commit from outside the list: the process dies, nothing written
                  /\ last' = Op("rebase", "abort", source.name, destination.name)
                  /\ UNCHANGED <<lit, idx, readonly, names, heads, objs, shelved,
                                 tree, dirty>>
             ELSE /\ Len(added.commits) <= MaxHistory
                  /\ added.head + rebase_count >= -MaxWrap
                  /\ tree' = IF active THEN apply_steps(tree, steps) ELSE tree
                  /\ heads' = write_branch(heads,
                        [added EXCEPT !.head = IF active THEN target_idx
                                               ELSE added.head + rebase_count])
                  /\ last' = Op("rebase", "ok", source.name, destination.name)
                  /\ UNCHANGED <<lit, idx, readonly, names, objs, shelved, dirty>>

\* the first parameter is taken as the source, the second as the destination
handle_rebase_branch(p1, p2) ==
    IF ~setup THEN Fails("rebase", "fail", p1, p2)
    ELSE rebase_branch(p2, p1)

(* -------------------------------- tags -------------------------------- *)

\* the hash of a branch: the digest of its name
branch_hash(name) == <<"sha", name>>

\* create_tag: the hash of the commit and the hash of its parent branch
create_tag(branch, commit, name) ==
    [exists |-> TRUE, commit_hash |-> commit, branch_hash |-> branch_hash(branch.name)]

\* add-tag <hash> <name>: the commit is looked for on the active branch, and
\* write_tag writes the file of the tag, over one of the same name
handle_add_tag(hash, tag_name) ==
    IF ~setup \/ find_index_commit(active_branch.commits, hash) = -1
    THEN Fails("add-tag", "fail", tag_name, "") /\ UNCHANGED tags
    ELSE /\ tags' = [tags EXCEPT ![tag_name] = create_tag(active_branch, hash, tag_name)]
         /\ last' = Op("add-tag", "ok", tag_name, "")
         /\ UNCHANGED <<lit, idx, readonly, names, heads, objs, shelved, tree, dirty>>

\* delete-tag <name>: the file of the tag is removed when there is one
handle_delete_tag(tag_name) ==
    IF ~tags[tag_name].exists
    THEN Fails("delete-tag", "fail", tag_name, "") /\ UNCHANGED tags
    ELSE /\ tags' = [tags EXCEPT ![tag_name] = NoTag]
         /\ last' = Op("delete-tag", "ok", tag_name, "")
         /\ UNCHANGED <<lit, idx, readonly, names, heads, objs, shelved, tree, dirty>>

(* ------------------------------ the runs ------------------------------ *)

\* One command, start to exit.  A command that leaves the disk as it found it
\* (a refusal, a no-op) is recorded in last and the run is followed no
\* further: what can follow it is what can follow the state it started from.
\* After an edit the user adds the file before anything else.
Run(command) ==
    /\ ~quiet
    /\ command
    /\ last.op = "edit" => last'.op = "add"
    /\ UNCHANGED tags
    /\ quiet' = (disk' = disk)
    /\ UNCHANGED moves
    /\ UNCHANGED <<cache, differ>>

\* a command that moves a head, the active branch, the branch list or a tag,
\* within a budget of such commands
RunWithin(command, budget) ==
    /\ ~quiet
    /\ last.op # "edit"
    /\ command
    /\ quiet' = (disk' = disk)
    /\ moves' = IF disk' # disk THEN moves + 1 ELSE moves
    /\ moves' <= budget
    /\ UNCHANGED <<cache, differ>>

RunMove(command) == RunWithin(command /\ UNCHANGED tags, MaxMoves)

UserEdit == \E p \in Paths, c \in Contents : Run(Edit(p, c))

LitInit == Run(handle_init)

LitAdd == \E p \in Paths : Run(handle_add(p))

LitDelete == \E p \in Paths : Run(handle_delete(p))

LitCommit == Run(handle_commit)

LitRollback ==
    \E hash \in 1..MaxCommits, hard \in BOOLEAN :
        RunMove(handle_cr_move("rollback", hash, hard))

LitCheckout ==
    \E hash \in 1..MaxCommits, hard \in BOOLEAN :
        RunMove(handle_cr_move("checkout", hash, hard))

LitCreateBranch ==
    \E name \in BranchNames, from_name \in BranchNames :
        RunMove(handle_create_branch(name, from_name))

LitSwitchBranch == \E name \in BranchNames : RunMove(handle_switch_branch(name))

LitDeleteBranch == \E name \in BranchNames : RunMove(handle_delete_branch(name))

LitRebaseBranch ==
    \E p1 \in BranchNames, p2 \in BranchNames :
        RunMove(handle_rebase_branch(p1, p2))

Next ==
    \/ UserEdit
    \/ LitInit
    \/ LitAdd
    \/ LitDelete
    \/ LitCommit
    \/ LitRollback
    \/ LitCheckout
    \/ LitCreateBranch
    \/ LitSwitchBranch
    \/ LitDeleteBranch
    \/ LitRebaseBranch

Spec == Init /\ [][Next]_vars

(* ------------------------- the runs with tags -------------------------- *)

TagCreateBranch ==
    \E name \in BranchNames, from_name \in BranchNames :
        RunWithin(handle_create_branch(name, from_name) /\ UNCHANGED tags, MaxTagMoves)

TagSwitchBranch ==
    \E name \in BranchNames :
        RunWithin(handle_switch_branch(name) /\ UNCHANGED tags, MaxTagMoves)

TagDeleteBranch ==
    \E name \in BranchNames :
        RunWithin(handle_delete_branch(name) /\ UNCHANGED tags, MaxTagMoves)

TagRebaseBranch ==
    \E p1 \in BranchNames, p2 \in BranchNames :
        RunWithin(handle_rebase_branch(p1, p2) /\ UNCHANGED tags, MaxTagMoves)

LitAddTag ==
    \E hash \in 1..MaxCommits, tag_name \in TagNames :
        RunWithin(handle_add_tag(hash, tag_name), MaxTagMoves)

LitDeleteTag ==
    \E tag_name \in TagNames : RunWithin(handle_delete_tag(tag_name), MaxTagMoves)

\* the commands that make commits, branches and tags
TagNext ==
    \/ UserEdit
    \/ LitInit
    \/ LitAdd
    \/ LitCommit
    \/ TagCreateBranch
    \/ TagSwitchBranch
    \/ TagDeleteBranch
    \/ TagRebaseBranch
    \/ LitAddTag
    \/ LitDeleteTag

TagSpec == Init /\ [][TagNext]_vars

(* ------------- the runs of rollback, checkout and branches ------------- *)

\* rollbacks, checkouts, branch creations and switches in one run
MaxHeadMoves == 4

MoveRollback ==
    \E hash \in 1..MaxCommits :
        RunWithin(handle_cr_move("rollback", hash, FALSE) /\ UNCHANGED tags,
                  MaxHeadMoves)

MoveCheckout ==
    \E hash \in 1..MaxCommits :
        RunWithin(handle_cr_move("checkout", hash, FALSE) /\ UNCHANGED tags,
                  MaxHeadMoves)

MoveCreateBranch ==
    \E name \in BranchNames, from_name \in BranchNames :
        RunWithin(handle_create_branch(name, from_name) /\ UNCHANGED tags,
                  MaxHeadMoves)

MoveSwitchBranch ==
    \E name \in BranchNames :
        RunWithin(handle_switch_branch(name) /\ UNCHANGED tags, MaxHeadMoves)

MoveNext ==
    \/ UserEdit
    \/ LitInit
    \/ LitAdd
    \/ LitCommit
    \/ MoveRollback
    \/ MoveCheckout
    \/ MoveCreateBranch
    \/ MoveSwitchBranch

MoveSpec == Init /\ [][MoveNext]_vars

(* -------------------- the runs over the branch list -------------------- *)

\* branch creations, switches and deletions in one run
MaxListMoves == 4

ListCreateBranch ==
    \E name \in HeadNames, from_name \in HeadNames :
        RunWithin(handle_create_branch(name, from_name) /\ UNCHANGED tags,
                  MaxListMoves)

ListSwitchBranch ==
    \E name \in HeadNames :
        RunWithin(handle_switch_branch(name) /\ UNCHANGED tags, MaxListMoves)

ListDeleteBranch ==
    \E name \in HeadNames :
        RunWithin(handle_delete_branch(name) /\ UNCHANGED tags, MaxListMoves)

ListNext ==
    \/ UserEdit
    \/ LitInit
    \/ LitAdd
    \/ LitCommit
    \/ ListCreateBranch
    \/ ListSwitchBranch
    \/ ListDeleteBranch

ListSpec == Init /\ [][ListNext]_vars

(* ------------------ commands stopped between two writes ---------------- *)

\* the files of a shelf that are still there after the files at the places
\* gone were removed
left_on_shelf(files, gone) ==
    LET places == SelectSeq([k \in 1..Len(files) |-> k], LAMBDA k : k \notin gone)
    IN [k \in 1..Len(places) |-> files[places[k]]]

\* handle_commit stopped in its loop over the shelved files, after it removed
\* the first j of them: nothing is written to the object store before the loop
\* has ended
commit_stopped_removing ==
    /\ setup
    /\ ~readonly
    /\ LET files == shelved[active_branch.name].files
       IN \E o \in Perms(1..Len(files)), j \in 1..Len(files) :
            LET gone == {o[k] : k \in 1..j}
            IN /\ shelved' = [shelved EXCEPT ![active_branch.name].files =
                                  left_on_shelf(files, gone)]
               /\ dirty' = dirty \ touched([k \in 1..j |-> files[o[k]]])
    /\ last' = Op("commit", "stopped", "remove", "")
    /\ UNCHANGED <<lit, idx, readonly, names, heads, objs, tree>>

\* handle_commit stopped after write_commit and before write_branch: the
\* shelf is empty and the commit object is written, the branch file is the
\* old one
commit_stopped_written ==
    /\ setup
    /\ ~readonly
    /\ shelved[active_branch.name].files # <<>>
    /\ Len(objs) < MaxCommits
    /\ \E changes \in collect_shelved(active_branch.name) :
         /\ objs' = Append(objs, changes)
         /\ shelved' = [shelved EXCEPT ![active_branch.name].files = <<>>]
         /\ dirty' = dirty \ touched(changes)
    /\ last' = Op("commit", "stopped", "write_commit", "")
    /\ UNCHANGED <<lit, idx, readonly, names, heads, tree>>

\* create_branch_repository stopped after write_repository and before
\* write_branch
create_branch_stopped(name, from_name) ==
    LET branches == read_repository.branches
        pushed == Append(branches, create_branch(name))
    IN /\ setup
       /\ branch_index(branches, name) = -1
       /\ branch_index(pushed, from_name) # -1
       /\ names' = Append(names, name)
       /\ last' = Op("create-branch", "stopped", name, from_name)
       /\ UNCHANGED <<lit, idx, readonly, heads, objs, shelved, tree, dirty>>

\* handle_delete_branch stopped after the remove of delete_branch_repository
\* and before anything else is written
delete_branch_stopped(name) ==
    LET branches == read_repository.branches
    IN /\ setup
       /\ name # "origin"
       /\ branch_index(branches, name) # -1
       /\ heads' = [heads EXCEPT ![name] = NoBranchFile]
       /\ last' = Op("delete-branch", "stopped", name, "")
       /\ UNCHANGED <<lit, idx, readonly, names, objs, shelved, tree, dirty>>

\* a command that stops before its exit: the run ends there
Stopped(command) ==
    /\ ~quiet
    /\ last.op # "edit"
    /\ command
    /\ UNCHANGED tags
    /\ quiet' = TRUE
    /\ UNCHANGED moves
    /\ UNCHANGED <<cache, differ>>

StopCommitRemoving == Stopped(commit_stopped_removing)

StopCommitWritten == Stopped(commit_stopped_written)

StopCreateBranch ==
    \E name \in BranchNames, from_name \in BranchNames :
        Stopped(create_branch_stopped(name, from_name))

StopDeleteBranch == \E name \in BranchNames : Stopped(delete_branch_stopped(name))

StopNext ==
    \/ UserEdit
    \/ LitInit
    \/ LitAdd
    \/ LitCommit
    \/ LitCreateBranch
    \/ LitDeleteBranch
    \/ StopCommitRemoving
    \/ StopCommitWritten
    \/ StopCreateBranch
    \/ StopDeleteBranch

StopSpec == Init /\ [][StopNext]_vars

(* --------------------------- the line diff ---------------------------- *)

\* lines in a file the diff is followed over
MaxLines == 3

Texts3 == {"x", "y", "z"}

RECURSIVE LineSeqs(_)
\* the files of up to n lines
LineSeqs(n) ==
    IF n = 0 THEN {<<>>}
    ELSE LET shorter == LineSeqs(n - 1)
         IN shorter \cup {Append(l, t) : l \in {k \in shorter : Len(k) = n - 1},
                                          t \in Texts3}

\* What a call of lcs can end in.  The loops that fill the table run
\* `for (int i = m-1; i > 0u; i--)` and `for (int j = n-1; j > 0u; j--)`, the
\* comparisons being unsigned ones.  With m = 0 the outer loop starts on
\* i = -1: its body reads a[-1] and writes through dp[-1] where n # 1, and
\* with n = 1 the counter decrements past INT_MIN.  With n = 0 and m >= 2 the
\* inner loop starts on j = -1 and reads b[-1], b[-2], ...  All of these are
\* undefined: the process is killed, or it survives, and then the backtrack,
\* which reads no cell of the table when a file is empty, returns the lines.
lcs_outcomes(a, b) ==
    LET m == Len(a)
        n == Len(b)
        done == [ran |-> "yes", lines |-> lcs(a, b)]
        killed == [ran |-> "abort", lines |-> <<>>]
    IN IF m = 0 \/ (n = 0 /\ m >= 2) THEN {done, killed} ELSE {done}

\* rindat of the prior and of the current file
read_files(a, b) ==
    /\ traced.ran = "no" /\ old_data = <<>> /\ new_data = <<>>
    /\ old_data' = a
    /\ new_data' = b
    /\ UNCHANGED traced

\* diff_file_modified: lcs of the lines read
diff_file_modified ==
    /\ traced.ran = "no"
    /\ traced' \in lcs_outcomes(old_data, new_data)
    /\ UNCHANGED <<old_data, new_data>>

DiffRead ==
    \E a \in LineSeqs(MaxLines), b \in LineSeqs(MaxLines) :
        read_files(a, b) /\ UNCHANGED <<history, cache>>

DiffLcs == diff_file_modified /\ UNCHANGED <<history, cache>>

DiffNext ==
    \/ DiffRead
    \/ DiffLcs

DiffSpec == Init /\ [][DiffNext]_vars

(* --------------------------- the object cache -------------------------- *)

\* commits and diff files the cache is followed over
MaxObjects == 3

\* A ucrc32_t is an unsigned int of 32 bits; it is held as its two 16-bit
\* halves <<hi, lo>>, the value being hi * 2^16 + lo.
Half == 65536

\* the CRCs the changes are given: 0, one to four decimal digits, five digits,
\* five digits with a pair of leading digits shared with another, the largest
\* int, the first value above it, two larger ones and the largest unsigned
CrcValues ==
    {<<0, 0>>, <<0, 7>>, <<0, 42>>, <<0, 999>>, <<0, 1234>>, <<0, 12345>>,
     <<1, 0>>, <<32767, 65535>>, <<32768, 0>>, <<46123, 1111>>,
     <<65535, 65436>>, <<65535, 65535>>}

Digit(d) == <<"0", "1", "2", "3", "4", "5", "6", "7", "8", "9">>[d + 1]

\* hi * 2^16 + lo divided by ten: the quotient as halves, and the remainder
Div10(u) ==
    LET rest == (u[1] % 10) * Half + u[2]
    IN [q |-> <<u[1] \div 10, rest \div 10>>, r |-> rest % 10]

RECURSIVE Decimal(_)
\* the decimal digits of an unsigned value, no leading zero
Decimal(u) ==
    IF u[1] = 0 /\ u[2] < 10 THEN <<Digit(u[2])>>
    ELSE Decimal(Div10(u).q) \o <<Digit(Div10(u).r)>>

\* 2^32 - u, the magnitude of the int with u's bits when its top bit is set
Negated(u) ==
    <<(Half - 1 - u[1]) + (IF u[2] = 0 THEN 1 ELSE 0), (Half - u[2]) % Half>>

\* sprintf("%d", hash): the unsigned int is printed as the int with its bits
SignedDecimal(u) ==
    IF u[1] >= Half \div 2 THEN <<"-">> \o Decimal(Negated(u)) ELSE Decimal(u)

\* snprintf("%04u", crc): unsigned, padded with zeros to four digits
PaddedDecimal(u) ==
    LET d == Decimal(u)
    IN [k \in 1..(IF Len(d) < 4 THEN 4 - Len(d) ELSE 0) |-> "0"] \o d

\* strcrc32: the assert refuses 0; the buffer is calloc(1, 11), and an int of
\* ten digits with its sign takes twelve bytes with the terminator, one more
\* than the block was asked for (the byte lands in the allocator's rounding of
\* the block)
strcrc32(hash) == SignedDecimal(hash)

\* ".lit/objects/diffs/%.2s/%s" of hash and hash + 2: the directory is the
\* first two characters, the file what follows them (nothing when the string
\* has no more than two: the buffers are zeroed)
diff_path(hash) ==
    <<SubSeq(hash, 1, IF Len(hash) < 2 THEN Len(hash) ELSE 2),
      IF Len(hash) > 2 THEN SubSeq(hash, 3, Len(hash)) ELSE <<>>>>

\* the path write_commit stores the diff of a change under
stored_path(crc) == diff_path(strcrc32(crc))

\* the path scan_object_cache looks for the diff of a change under
scanned_path(crc) == diff_path(PaddedDecimal(crc))

\* the path read_commit_from_stream loads the diff of a change from: the line
\* write_commit_to_stream wrote with fprintf("%u\n", change->crc), split as
\* ".lit/objects/diffs/%.2s/%s" of line and line + 2
loaded_path(crc) == diff_path(Decimal(crc))

\* read_commit of the commit write_commit(crc) wrote: the change it gets, or
\* "exit" where read_diff finds no file to open
read_commit(crc) ==
    IF loaded_path(crc) \in objects THEN crc ELSE "exit"

\* a command that is not clear-cache scans nothing
NoScan == [result |-> "none", count |-> 0, code |-> 0]

\* shelved diffs the cache is followed over
MaxShelvedFiles == 1

\* the CRCs of the diffs that are shelved
ShelvedCrcs == {<<0, 12345>>, <<0, 7>>}

\* files under .lit/objects/diffs that no command of lit wrote
Orphans == {<<<<"z", "z">>, <<"o">>>>, <<<<"1", "2">>, <<"o">>>>}

\* a file is planted under .lit/objects/diffs from outside
plant(node) ==
    /\ node \notin objects
    /\ Cardinality(objects) < MaxObjects
    /\ objects' = objects \cup {node}
    /\ folders' = folders \cup {node[1]}
    /\ scan' = NoScan
    /\ UNCHANGED referenced

\* write_commit of a commit with one change: strcrc32 asserts the CRC is not
\* 0, and a path with no file name cannot be opened, which ends the command;
\* otherwise the diff file is written and the commit is on its branch
write_commit(crc) ==
    /\ crc # <<0, 0>>
    /\ stored_path(crc)[2] # <<>>
    /\ Cardinality(referenced) < MaxObjects
    /\ Cardinality(objects \cup {stored_path(crc)}) <= MaxObjects
    /\ referenced' = referenced \cup {crc}
    /\ objects' = objects \cup {stored_path(crc)}
    /\ folders' = folders \cup {stored_path(crc)[1]}
    /\ scan' = NoScan

\* delete_branch_repository as the cache sees it: the commit of a change is
\* on no branch any more, its files stay
delete_branch_commit(crc) ==
    /\ crc \in referenced
    /\ referenced' = referenced \ {crc}
    /\ scan' = NoScan
    /\ UNCHANGED <<objects, folders>>

\* ".lit/objects/shelved/<branch>/<crc>.diff": the file write_to_shelved
\* writes the diff of a change to, for the branch origin
shelved_file(crc) == <<<<"shelved", "origin">>, Decimal(crc) \o <<".diff">>>>

\* the shelved diffs among a set of files
ShelvedIn(files) == {node \in files : node[1] = <<"shelved", "origin">>}

\* write_to_shelved as the cache sees it: the directory of the branch is made
\* and the diff is written into it
shelve_file(crc) ==
    /\ shelved_file(crc) \notin objects
    /\ Cardinality(ShelvedIn(objects)) < MaxShelvedFiles
    /\ Cardinality(objects) < MaxObjects
    /\ objects' = objects \cup {shelved_file(crc)}
    /\ folders' = folders \cup {shelved_file(crc)[1]}
    /\ scan' = NoScan
    /\ UNCHANGED referenced

RECURSIVE sweep_every_folder(_, _, _, _)
\* the loop of scan_object_cache removing the directory of every file it removes
sweep_every_folder(order, doomed, files, dirs) ==
    IF order = <<>> THEN [files |-> files, dirs |-> dirs]
    ELSE LET node == Head(order)
         IN IF node \notin doomed
            THEN sweep_every_folder(Tail(order), doomed, files, dirs)
            ELSE sweep_every_folder(Tail(order), doomed, files \ {node},
                                    dirs \ {node[1]})

RECURSIVE sweep(_, _, _, _)
\* the loop of scan_object_cache over the files inw_walk listed, in its order:
\* an unreferenced file is removed, and its directory with it when the walk
\* of the directory, made before the removal, finds one entry
sweep(order, doomed, files, dirs) ==
    IF order = <<>> THEN [files |-> files, dirs |-> dirs]
    ELSE LET node == Head(order)
             parent == {n \in files : n[1] = node[1]}
         IN IF node \notin doomed
            THEN sweep(Tail(order), doomed, files, dirs)
            ELSE sweep(Tail(order), doomed, files \ {node},
                       IF Cardinality(parent) = 1 THEN dirs \ {node[1]} ELSE dirs)

\* scan_object_cache keeping every file whose fan-out directory is that of a
\* change of a commit on a branch
scan_object_cache_by_directory ==
    LET is_referenced(node) ==
            \E crc \in referenced : scanned_path(crc)[1] = node[1]
        unreferenced == {node \in objects : ~is_referenced(node)}
        result == IF unreferenced = {} THEN "E_CACHE_RESULT_NO_CACHE"
                  ELSE "E_CACHE_RESULT_SUCCESS"
    IN /\ \E order \in Perms(objects) :
            LET swept == sweep(order, unreferenced, objects, folders)
            IN objects' = swept.files /\ folders' = swept.dirs
       /\ scan' = [result |-> result, count |-> Cardinality(unreferenced),
                   code |-> IF result = "E_CACHE_RESULT_SUCCESS" THEN 0 ELSE 1]
       /\ UNCHANGED referenced

\* scan_object_cache: every file no change of a commit on a branch accounts
\* for is removed and counted, in the order inw_walk lists the files;
\* handle_clear_cache returns 0 when the result is E_CACHE_RESULT_SUCCESS and
\* 1 otherwise
scan_object_cache ==
    LET is_referenced(node) ==
            \E crc \in referenced : scanned_path(crc) = node
        unreferenced == {node \in objects : ~is_referenced(node)}
        result == IF unreferenced = {} THEN "E_CACHE_RESULT_NO_CACHE"
                  ELSE "E_CACHE_RESULT_SUCCESS"
    IN /\ \E order \in Perms(objects) :
            LET swept == sweep(order, unreferenced, objects, folders)
            IN objects' = swept.files /\ folders' = swept.dirs
       /\ scan' = [result |-> result, count |-> Cardinality(unreferenced),
                   code |-> IF result = "E_CACHE_RESULT_SUCCESS" THEN 0 ELSE 1]
       /\ UNCHANGED referenced

CacheWriteCommit ==
    \E crc \in CrcValues : write_commit(crc) /\ UNCHANGED <<history, differ>>

CacheDeleteBranch ==
    \E crc \in CrcValues : delete_branch_commit(crc) /\ UNCHANGED <<history, differ>>

CachePlant == \E node \in Orphans : plant(node) /\ UNCHANGED <<history, differ>>

CacheShelve ==
    \E crc \in ShelvedCrcs : shelve_file(crc) /\ UNCHANGED <<history, differ>>

LitClearCache == scan_object_cache /\ UNCHANGED <<history, differ>>

CacheNext ==
    \/ CacheWriteCommit
    \/ CacheDeleteBranch
    \/ CachePlant
    \/ CacheShelve
    \/ LitClearCache

CacheSpec == Init /\ [][CacheNext]_vars

(* ======================= the claims of the contract ===================== *)

\* the working tree before anything was written to it
EmptyTree == [p \in Paths |-> ABSENT]

RECURSIVE ForwardUp(_, _, _, _)
\* commits[lo], ..., commits[hi] (C indices) forward-applied to t, lowest first
ForwardUp(t, commits, lo, hi) ==
    IF lo > hi THEN t
    ELSE ForwardUp(apply_forward_commit(t, commits[lo + 1]), commits, lo + 1, hi)

RECURSIVE InverseDown(_, _, _, _)
\* commits[hi], ..., commits[lo] (C indices) inverse-applied to t, highest first
InverseDown(t, commits, hi, lo) ==
    IF hi < lo THEN t
    ELSE InverseDown(apply_inverse_commit(t, commits[hi + 1]), commits, hi - 1, lo)

\* the tree that holds commits[0..head] of B and nothing else
Materialised(B) == ForwardUp(EmptyTree, B.commits, 0, B.head)

HeadInside(B) == 0 <= B.head /\ B.head < Len(B.commits)

\* the number of leading commits two lists have in common
CommonPrefix(c1, c2) ==
    LET agree == {n \in 0..min(Len(c1), Len(c2)) :
                     \A k \in 1..n : c1[k] = c2[k]}
    IN CHOOSE n \in agree : \A m \in agree : m <= n

\* S and D share a first part, whose last commit is their common ancestor, and
\* nothing after it
Diverged(S, D) ==
    LET n == CommonPrefix(S.commits, D.commits)
    IN /\ n >= 1
       /\ \A i \in (n + 1)..Len(S.commits), j \in 1..Len(D.commits) :
              S.commits[i] # D.commits[j]
       /\ \A i \in 1..Len(S.commits), j \in (n + 1)..Len(D.commits) :
              S.commits[i] # D.commits[j]

\* the commits of a list after its first n
After(commits, n) == SubSeq(commits, n + 1, Len(commits))

\* two commits hold diffs with the same new_path
SharePath(c1, c2) ==
    \E i \in 1..Len(objs[c1]), j \in 1..Len(objs[c2]) :
        objs[c1][i].new_path = objs[c2][j].new_path

SamePathAfter(S, D) ==
    LET n == CommonPrefix(S.commits, D.commits)
    IN \E i \in (n + 1)..Len(S.commits), j \in (n + 1)..Len(D.commits) :
           SharePath(S.commits[i], D.commits[j])

\* the same diffs, each as many times, in any order
SameDiffs(s1, s2) ==
    /\ Len(s1) = Len(s2)
    /\ \A d \in {s1[k] : k \in 1..Len(s1)} \cup {s2[k] : k \in 1..Len(s2)} :
           Cardinality({k \in 1..Len(s1) : s1[k] = d})
               = Cardinality({k \in 1..Len(s2) : s2[k] = d})

\* C1: after any sequence of operations from init every branch B of the
\* repository has 0 <= B.head < |B.commits|.  Stated here for the branches that
\* hold a commit: a branch that holds none has head 0.
HeadWithinCommits ==
    setup => \A i \in 1..Len(names) :
                 LET B == read_branch(names[i])
                 IN Len(B.commits) > 0 => HeadInside(B)

\* C2: after a completed commit, rollback, checkout, switch-branch,
\* delete-branch or rebase-branch, with no uncommitted edit outstanding, the
\* working tree is the result of forward-applying commits[0..head] of the
\* active branch, in order, to an empty tree.
HeadMaterialised ==
    (/\ setup
     /\ last.res = "ok"
     /\ last.op \in {"commit", "rollback", "checkout", "switch",
                     "delete-branch", "rebase"}
     /\ dirty = {}
     /\ total_shelved = 0
     /\ HeadInside(active_branch))
    => tree = Materialised(active_branch)

ReadonlyIffBehind ==
    (setup /\ last.op \in {"rollback", "checkout"} /\ last.res = "ok")
    => (readonly <=> active_branch.head # Len(active_branch.commits) - 1)

\* a checkout has brought the active branch back to its last commit
ReadonlyIffBehindWitness ==
    /\ setup
    /\ last.op = "checkout" /\ last.res = "ok"
    /\ active_branch.head = Len(active_branch.commits) - 1
    /\ ~readonly

\* C5: whenever the repository is read-only, commit, add and delete fail and
\* leave every branch's commit list and head, every shelving area, the object
\* store and the working tree unchanged.
ReadonlyRefuses ==
    [][(readonly /\ last'.op \in {"commit", "add", "delete"}) =>
          (last'.res = "fail" /\ UNCHANGED <<heads, shelved, objs, tree>>)]_vars

\* a commit was refused in a read-only repository with a diff on the shelf
ReadonlyRefusesWitness ==
    /\ setup /\ readonly
    /\ last.op = "commit" /\ last.res = "fail"
    /\ shelved[active_branch.name].files # <<>>

\* C6: from every reachable read-only state a checkout to the last commit of
\* the active branch succeeds and leaves readonly false.
ReadonlyRecoverable ==
    [][\A hard \in BOOLEAN :
          (/\ setup /\ readonly
           /\ Len(active_branch.commits) > 0
           /\ handle_cr_move("checkout",
                  active_branch.commits[Len(active_branch.commits)], hard))
          => (last'.res = "ok" /\ ~readonly')]_vars

\* C7: a successful commit on the active branch B appends exactly one new
\* commit at the end of B.commits whose changes are exactly the diffs shelved
\* for B, writes the commit and the branch, sets B.head to |B.commits| - 1 and
\* leaves B's shelving area with no file and no directory.
CommitDrainsShelf ==
    [][(last'.op = "commit" /\ last'.res = "ok") =>
          LET B == active_branch
              files == shelved[B.name].files
          IN /\ files # <<>>
             /\ Len(objs') = Len(objs) + 1
             /\ SubSeq(objs', 1, Len(objs)) = objs
             /\ SameDiffs(objs'[Len(objs')], files)
             /\ heads'[B.name] = [exists |-> TRUE,
                                  head |-> Len(B.commits),
                                  commits |-> Append(B.commits, Len(objs'))]
             /\ shelved'[B.name] = NoShelf
             /\ \A n \in BranchNames \ {B.name} :
                    heads'[n] = heads[n] /\ shelved'[n] = shelved[n]]_vars

\* a second commit has drained the shelf of the active branch
CommitDrainsShelfWitness ==
    /\ setup
    /\ last.op = "commit" /\ last.res = "ok"
    /\ Len(active_branch.commits) = 2
    /\ active_branch.head = 1
    /\ shelved[active_branch.name] = NoShelf

\* C8: a successful rebase of source S onto destination D with common
\* ancestor A leaves D.commits equal to its previous value followed by exactly
\* the commits of S after A, in S order, and leaves S unchanged; for two
\* branches that each hold one commit of their own after A, on different
\* paths, with both heads on the last commit (origin = [.., W], dev = [.., Z]),
\* rebasing dev onto origin succeeds and gives origin.commits = [.., W, Z] with
\* origin.head on Z.
RebaseAppendsSource ==
    [][(/\ last'.op = "rebase"
        /\ last'.res \in {"ok", "conflict", "abort"}
        /\ last'.a1 # last'.a2) =>
          LET S == read_branch(last'.a1)
              D == read_branch(last'.a2)
              n == CommonPrefix(S.commits, D.commits)
              extended == D.commits \o After(S.commits, n)
          IN Diverged(S, D) =>
               /\ last'.res = "ok" =>
                      /\ heads'[D.name].commits = extended
                      /\ heads'[S.name] = heads[S.name]
               /\ (/\ Len(S.commits) = n + 1
                   /\ Len(D.commits) = n + 1
                   /\ S.head = n
                   /\ D.head = n
                   /\ ~SamePathAfter(S, D)) =>
                      /\ last'.res = "ok"
                      /\ heads'[D.name].commits = extended
                      /\ heads'[D.name].head = Len(extended) - 1]_vars

\* C9: after a successful rebase onto destination D: if D is the active
\* branch every appended commit has been forward-applied to the working tree
\* in order and D.head is |D.commits| - 1; if D is not the active branch D.head
\* has advanced by exactly the number of commits appended and the working tree
\* is unchanged, wherever the head of the source is.
RebaseAdvancesHead ==
    [][(last'.op = "rebase" /\ last'.res = "ok" /\ last'.a1 # last'.a2) =>
          LET D == read_branch(last'.a2)
              rebased == heads'[D.name].commits
              appended == Len(rebased) - Len(D.commits)
          IN IF D.name = active_branch.name
             THEN /\ tree' = ForwardUp(tree, rebased, Len(D.commits), Len(rebased) - 1)
                  /\ heads'[D.name].head = Len(rebased) - 1
             ELSE /\ heads'[D.name].head = D.head + appended
                  /\ tree' = tree]_vars

\* C10: whenever some commit of the source after the common ancestor and some
\* commit of the destination after the common ancestor hold diffs with equal
\* new_path, rebase-branch returns conflict and appends nothing.
RebaseRefusesSamePath ==
    [][(/\ last'.op = "rebase"
        /\ last'.res \in {"ok", "conflict", "abort"}
        /\ last'.a1 # last'.a2) =>
          LET S == read_branch(last'.a1)
              D == read_branch(last'.a2)
          IN (Diverged(S, D) /\ SamePathAfter(S, D)) =>
                 (last'.res = "conflict" /\ heads' = heads)]_vars

\* C11: whenever rebase-branch does not return success (a conflict, or no
\* common ancestor), the commit lists and heads of source and destination,
\* their branch files, the index and the working tree are as before the call.
RebaseRefusalLeavesAll ==
    [][(last'.op = "rebase" /\ last'.res = "conflict") =>
          UNCHANGED <<heads, names, idx, readonly, objs, shelved, tree>>]_vars

\* a rebase was refused while the destination stood on its second commit
RebaseRefusalLeavesAllWitness ==
    /\ setup
    /\ last.op = "rebase" /\ last.res = "conflict"
    /\ last.a1 # last.a2
    /\ read_branch(last.a2).head = 1

\* C12: for `rebase-branch <dst> <src>` the first branch parameter is the
\* destination, the branch whose commit list is extended, and the second is
\* the source, which is left unchanged.
RebaseFirstIsDestination ==
    [][\A dst \in BranchNames, src \in BranchNames :
          (/\ dst # src
           /\ handle_rebase_branch(dst, src)
           /\ last'.res = "ok")
          => /\ heads'[src] = heads[src]
             /\ SubSeq(heads'[dst].commits, 1, Len(heads[dst].commits))
                    = heads[dst].commits
             /\ \A n \in BranchNames \ {dst} : heads'[n].commits = heads[n].commits]_vars

\* the C index of a commit on a list, -1 when it is not there
IndexOn(commits, hash) ==
    IF \E k \in 1..Len(commits) : commits[k] = hash
    THEN (CHOOSE k \in 1..Len(commits) :
              commits[k] = hash /\ \A m \in 1..(k - 1) : commits[m] # hash) - 1
    ELSE -1

\* C13: a rollback whose target is at an index >= head, a checkout whose
\* target is at an index <= head, and a rollback or checkout naming a commit
\* that is not on the active branch each fail and leave the head of the
\* branch, the readonly flag, the shelving area and the working tree unchanged.
MoveRefused ==
    [][\A op \in {"rollback", "checkout"}, hash \in 1..MaxCommits, hard \in BOOLEAN :
          LET t == IndexOn(active_branch.commits, hash)
              h == active_branch.head
          IN (/\ setup
              /\ HeadInside(active_branch)
              /\ \/ t = -1
                 \/ op = "rollback" /\ t >= h
                 \/ op = "checkout" /\ t <= h
              /\ handle_cr_move(op, hash, hard))
             => (last'.res = "fail" /\ UNCHANGED <<heads, readonly, shelved, tree>>)]_vars

\* a checkout of a commit at or below the head was refused on a branch that
\* holds every commit there is, with a diff on the shelf
MoveRefusedWitness ==
    /\ setup
    /\ last.op = "checkout" /\ last.res = "fail"
    /\ Len(active_branch.commits) = 2
    /\ Len(objs) = 2
    /\ active_branch.head = 0
    /\ shelved[active_branch.name].files # <<>>

CommitWithoutShelfRefused ==
    /\ setup /\ ~readonly
    /\ last.op = "commit" /\ last.res = "fail"
    /\ shelved[active_branch.name] = NoShelf
    /\ Len(active_branch.commits) = 1

\* the commits of a branch up to and including its head
UpToHead(B) ==
    IF HeadInside(B) THEN SubSeq(B.commits, 1, B.head + 1) ELSE B.commits

\* what add-branch does apart from the commit list it gives the new branch
BranchAdded(name, S) ==
    /\ heads'[name].exists
    /\ heads'[name].head = S.head
    /\ names' = Append(names, name)
    /\ idx' = idx
    /\ \A n \in BranchNames \ {name} : heads'[n] = heads[n]

SwitchAppliesRanges ==
    [][(/\ setup
        /\ last'.op = "switch" /\ last'.res = "ok"
        /\ last'.a1 # active_branch.name) =>
          LET current == active_branch
              T == read_branch(last'.a1)
              n == CommonPrefix(current.commits, T.commits)
          IN (Diverged(current, T) /\ HeadInside(current) /\ HeadInside(T)) =>
                 /\ tree' = ForwardUp(InverseDown(tree, current.commits,
                                                  current.head, n),
                                      T.commits, n, T.head)
                 /\ idx' = branch_index(read_repository.branches, T.name)
                 /\ names' = names]_vars

\* a list of names with one name taken out, the others in their order
Without(list, name) == SelectSeq(list, LAMBDA n : n # name)

\* the branch a delete-branch step was asked to delete: the command records it,
\* except where it went on to switch back to origin and recorded that name
Deleted == IF last'.a1 = "origin" THEN active_branch.name ELSE last'.a1

\* C17: delete-branch of an existing branch other than origin removes exactly
\* that branch from the branch list and removes its branch file, keeps the
\* other branches in their order, and persists an index whose count and names
\* are those of the remaining branches.
DeleteRemovesBranch ==
    [][(/\ setup
        /\ last'.op = "delete-branch" /\ last'.res # "fail") =>
          /\ branch_index(read_repository.branches, Deleted) # -1
          /\ Deleted # "origin"
          /\ names' = Without(names, Deleted)
          /\ ~heads'[Deleted].exists
          /\ \A b \in BranchNames \ {Deleted} : heads'[b] = heads[b]]_vars

\* the branch list, the branch files, the active index and the working tree
\* are after the step what they were before it
BranchesUntouched ==
    /\ names' = names
    /\ heads' = heads
    /\ idx' = idx
    /\ tree' = tree

Exists(name) == branch_index(read_repository.branches, name) # -1

\* C18: add-branch with a name that already exists, add-branch from a source
\* that does not exist, delete-branch of origin, and delete-branch or
\* switch-branch naming a branch that does not exist each fail and leave the
\* persisted branch list, every branch file, the active index and the working
\* tree unchanged.
BranchRefusals ==
    [][setup =>
        \A name \in BranchNames :
          /\ \A from_name \in BranchNames :
                (/\ Exists(name) \/ ~Exists(from_name)
                 /\ handle_create_branch(name, from_name)) =>
                    (last'.res = "fail" /\ BranchesUntouched)
          /\ (/\ name = "origin" \/ ~Exists(name)
              /\ handle_delete_branch(name)) =>
                 (last'.res = "fail" /\ BranchesUntouched)
          /\ (~Exists(name) /\ handle_switch_branch(name)) =>
                 (last'.res = "fail" /\ BranchesUntouched)]_vars

\* the consequence C18 draws: a repository always has its branch origin
OriginExists ==
    lit => (\E k \in 1..Len(names) : names[k] = "origin") /\ heads["origin"].exists

\* the commits two branches both have
Shared(B1, B2) ==
    {B1.commits[i] : i \in 1..Len(B1.commits)} \cap
    {B2.commits[j] : j \in 1..Len(B2.commits)}

\* C19: for any two branches B1 and B2, find_common_ancestor returns the most
\* recent commit that is in both commit lists whenever there is one, returns
\* nothing only when the branches share no commit, and any commit it returns
\* is in both lists.
AncestorMostRecent ==
    setup =>
      \A k1, k2 \in 1..Len(names) :
        LET B1 == read_branch(names[k1])
            B2 == read_branch(names[k2])
        IN \A a \in find_common_ancestor(B1, B2) :
             /\ (a = NONE) <=> (Shared(B1, B2) = {})
             /\ a # NONE =>
                   /\ a \in Shared(B1, B2)
                   /\ \A s \in Shared(B1, B2) :
                         IndexOn(B1.commits, s) <= IndexOn(B1.commits, a)

\* the part of C19 the walk keeps: what it returns is in both lists, and it
\* returns nothing when nothing is shared
AncestorIsShared ==
    setup =>
      \A k1, k2 \in 1..Len(names) :
        LET B1 == read_branch(names[k1])
            B2 == read_branch(names[k2])
        IN \A a \in find_common_ancestor(B1, B2) :
             /\ a # NONE => a \in Shared(B1, B2)
             /\ Shared(B1, B2) = {} => a = NONE

\* C20: clear-cache never removes a referenced object: after it runs, every
\* diff of every commit on a branch still has its diff file.  (The diff file
\* of a change is there from the commit that wrote it, so it is missing only
\* once clear-cache has removed it.)
CacheKeepsReferenced ==
    \A crc \in referenced : stored_path(crc) \in objects

\* C20's second sentence over the changes of the commits: the path the
\* scavenger derives from a CRC is the path the commit stored the diff under
ScavengerPathIsStoredPath ==
    \A crc \in referenced : scanned_path(crc) = stored_path(crc)

\* the files of a cache that are the stored diff of no change on a branch
Unreferenced == {node \in objects : \A crc \in referenced : stored_path(crc) # node}

\* C21: clear-cache removes every file under .lit/objects that is not the
\* diff path of a diff of a commit on a branch, returns exit code 0 when it
\* removed at least one file, and the number of removals it reports is the
\* number of files it removed.
ClearCacheSweeps ==
    [][scan'.result # "none" =>
         /\ objects' \subseteq objects
         /\ \A node \in Unreferenced : node \notin objects'
         /\ objects' # objects => scan'.code = 0
         /\ scan'.count = Cardinality(objects \ objects')]_vars

\* clear-cache has removed a file a deleted branch left and a planted one, and
\* left the diff of a commit that is on a branch
ClearCacheSweepsWitness ==
    /\ scan.result = "E_CACHE_RESULT_SUCCESS"
    /\ scan.count = 2 /\ scan.code = 0
    /\ referenced # {}
    /\ objects = {stored_path(crc) : crc \in referenced}

\* C22: every commit the commit operation wrote can be read back: for every
\* CRC the path write_commit stores a diff under is the path read_commit
\* loads it from, so that a commit whose diff file is where write_commit put
\* it is read back with that diff.
CommitReadsBack ==
    \A crc \in referenced :
        /\ loaded_path(crc) = stored_path(crc)
        /\ stored_path(crc) \in objects => read_commit(crc) = crc

\* C23: every stored tag refers to an existing branch, the one whose hash is
\* the branch hash of the tag, and the commit hash of the tag is the hash of
\* a commit in the commit list of that branch.  (Stated of the repositories
\* that can be read, where every branch the index names has its file.)
TagsRefer ==
    \A t \in TagNames :
        (setup /\ tags[t].exists) =>
            \E k \in 1..Len(names) :
                /\ branch_hash(names[k]) = tags[t].branch_hash
                /\ heads[names[k]].exists
                /\ find_index_commit(heads[names[k]].commits, tags[t].commit_hash) # -1

\* C24: for a commit C and the working tree W in which C was created, before
\* the changes of C, forward-applying C to W and then inverse-applying C
\* gives W again.  (Stated of the commits made before any head or branch has
\* moved: W is then what the commits of the branch add up to, and the tree
\* at the commit is W with C applied forward.)
ForwardThenInverse ==
    [][(/\ setup
        /\ last'.op = "commit" /\ last'.res = "ok"
        /\ moves = 0
        /\ Len(objs') = Len(objs) + 1) =>
          LET C == objs'[Len(objs')]
              W == IF active_branch.commits = <<>> THEN EmptyTree
                   ELSE Materialised(active_branch)
              forward == apply_diffs(W, C, 0, TRUE)
          IN forward = tree' => apply_diffs(forward, C, 0, FALSE) = W]_vars

\* C25: for all line sequences A and B the annotated sequence of the LCS diff
\* holds every line of A once, kept or removed, and every line of B once,
\* kept or added, in their order: its inverse materialisation is A and its
\* forward materialisation is B.
LcsTraces ==
    traced.ran # "no" =>
        /\ traced.ran = "yes"
        /\ finversels(traced.lines) = old_data
        /\ fforwardls(traced.lines) = new_data

\* the part of C25 that holds: a diff that lcs returns materialises to the
\* two files
LcsTracesWhenReturned ==
    traced.ran = "yes" =>
        /\ finversels(traced.lines) = old_data
        /\ fforwardls(traced.lines) = new_data

RECURSIVE LcsLength(_, _)
\* the length of a longest common subsequence of a and b
LcsLength(a, b) ==
    IF a = <<>> \/ b = <<>> THEN 0
    ELSE IF Head(a) = Head(b) THEN 1 + LcsLength(Tail(a), Tail(b))
    ELSE Max2(LcsLength(Tail(a), b), LcsLength(a, Tail(b)))

\* the kept lines of an annotated sequence
Kept(lines) == SelectSeq(lines, LAMBDA l : l[1] = " ")

\* C26: the kept lines of the diff of A against B are a longest common
\* subsequence of A and B: no common subsequence is longer.
KeptIsLongest ==
    traced.ran = "yes" =>
        Len(Kept(traced.lines)) = LcsLength(old_data, new_data)

\* an annotated sequence with "+" and "-" exchanged
Swapped(lines) ==
    [k \in 1..Len(lines) |->
        <<IF lines[k][1] = "+" THEN "-"
          ELSE IF lines[k][1] = "-" THEN "+" ELSE lines[k][1], lines[k][2]>>]

ReadonlyTracksHead ==
    (/\ setup
     /\ last.res \in {"ok", "fail"}
     /\ Len(active_branch.commits) > 0)
    => (readonly <=> active_branch.head # Len(active_branch.commits) - 1)

\* C29: every successful commit is made while the head of the active branch
\* is its last commit, whatever rollbacks, checkouts, add-branch and
\* switch-branch commands came before: no commit is appended to a branch
\* whose later commits are not in the working tree.
CommitOnLast ==
    [][(/\ setup
        /\ last'.op = "commit" /\ last'.res = "ok"
        /\ Len(objs') = Len(objs) + 1
        /\ active_branch.commits # <<>>)
       => active_branch.head = Len(active_branch.commits) - 1]_vars

\* C30: after any sequence of add-branch, delete-branch and switch-branch the
\* index written to disk designates a branch of the list (idx < |branches|),
\* and deleting a branch other than the active one leaves the branch of the
\* same name active, wherever the deleted branch stood in the list.
IndexStaysValid ==
    [][(/\ setup
        /\ last'.op \in {"create-branch", "delete-branch", "switch"}
        /\ last'.res \in {"ok", "fail"})
       => /\ idx' < Len(names')
          /\ (/\ last'.op = "delete-branch" /\ last'.res = "ok"
              /\ last'.a1 # active_branch.name)
             => names'[idx' + 1] = active_branch.name]_vars

\* C31: while readonly is true, rebase-branch and delete-branch are prevented
\* as commit, add and delete are: they do not succeed and leave the commit
\* list and the head of every branch and the branch list unchanged.
ReadonlyRefusesBranchOps ==
    [][(/\ setup /\ readonly
        /\ last'.op \in {"rebase", "delete-branch"})
       => (last'.res # "ok" /\ UNCHANGED <<heads, names>>)]_vars

\* the pairs (S.commits[i], D.commits[i]) for a < i < min(S.head, |S|, |D|),
\* S.head being an unsigned number
AlignedPairs(S, D, a) ==
    {i \in (a + 1)..(Len(S.commits) - 1) :
        /\ i < Len(D.commits)
        /\ (S.head >= 0 => i < S.head)}

Listed(commits) == {commits[k] : k \in 1..Len(commits)}

\* C33: after a successful rebase of source S onto destination D every commit
\* of S is on the commit list of D and no commit is on the list of D more
\* than once, for repeated rebases in both directions as well.
RebaseTakesAllOnce ==
    [][(/\ setup
        /\ last'.op = "rebase" /\ last'.res = "ok")
       => LET S == heads[last'.a1].commits
              D == heads'[last'.a2].commits
          IN /\ Listed(S) \subseteq Listed(D)
             /\ Cardinality(Listed(D)) = Len(D)]_vars

\* a branch with no commit, or with its head on one of its commits
HeadSettled(B) == B.commits = <<>> \/ HeadInside(B)

\* every materialised commit of B inverse-applied to t, from the head down to
\* index 0
AllDown(t, B) ==
    IF B.commits = <<>> THEN t ELSE InverseDown(t, B.commits, B.head, 0)

\* the commits 0 .. head of B forward-applied to t, in order
AllUp(t, B) ==
    IF B.commits = <<>> THEN t ELSE ForwardUp(t, B.commits, 0, B.head)

\* C34: switch-branch to an existing target that shares no commit with the
\* current branch inverse-applies every materialised commit of the current
\* branch, from its head down to index 0, then forward-applies the commits
\* 0 .. head of the target in order, and makes the target the active branch
\* of the index.
SwitchUnrelated ==
    [][(/\ setup
        /\ last'.op = "switch" /\ last'.res = "ok"
        /\ last'.a1 # active_branch.name) =>
          LET current == active_branch
              T == read_branch(last'.a1)
          IN (/\ Listed(current.commits) \cap Listed(T.commits) = {}
              /\ HeadSettled(current) /\ HeadSettled(T)) =>
                 /\ tree' = AllUp(AllDown(tree, current), T)
                 /\ idx' = branch_index(read_repository.branches, T.name)
                 /\ names' = names]_vars

\* a switch between two branches that hold a commit each and share none has
\* changed the working tree
SwitchUnrelatedWitness ==
    /\ setup
    /\ last.op = "switch" /\ last.res = "ok"
    /\ moves = 3
    /\ \E b \in BranchNames \ {active_branch.name} :
          /\ heads[b].exists
          /\ heads[b].commits # <<>> /\ active_branch.commits # <<>>
          /\ Listed(heads[b].commits) \cap Listed(active_branch.commits) = {}
          /\ tree = Materialised(active_branch)
          /\ tree # Materialised(read_branch(b))

\* C35: delete-branch of the active branch, which is not origin, switches
\* back to origin: the index then lists exactly the remaining branches, its
\* active index designates origin and the working tree is what the commits
\* of origin up to its head amount to, wherever the deleted branch stood in
\* the branch list.  Taken from the working trees that hold the commits of
\* the active branch up to its head and nothing else.
DeleteActiveReturnsToOrigin ==
    [][(/\ setup
        /\ active_branch.name # "origin"
        /\ HeadSettled(read_branch("origin"))
        /\ tree = AllUp(EmptyTree, active_branch)
        /\ last'.op = "delete-branch"
        /\ Deleted = active_branch.name) =>
          /\ last'.res = "ok"
          /\ names' = Without(names, active_branch.name)
          /\ idx' < Len(names')
          /\ names'[idx' + 1] = "origin"
          /\ tree' = AllUp(EmptyTree, read_branch("origin"))]_vars

\* a list is a prefix of another
IsPrefix(c1, c2) == Len(c1) <= Len(c2) /\ SubSeq(c2, 1, Len(c1)) = c1

\* C36: no operation removes, replaces or reorders commits of an existing
\* branch: for every branch that exists before and after a command, its
\* commit list before the command is a prefix of its commit list after it.
CommitsOnlyAppended ==
    [][\A b \in HeadNames :
          (heads[b].exists /\ heads'[b].exists) =>
              IsPrefix(heads[b].commits, heads'[b].commits)]_vars

\* a rebase has extended the commit list of a branch that held two commits
CommitsOnlyAppendedWitness ==
    /\ setup
    /\ last.op = "rebase" /\ last.res = "ok"
    /\ last.a1 # last.a2
    /\ Len(heads[last.a2].commits) = 3
    /\ Len(heads[last.a1].commits) = 2

\* what a rollback step from a branch on its last commit h leaves, and what
\* the checkout of h that handle_cr_move runs from there gives back
RoundTrip ==
    LET h == active_branch.head
        rolled == [active_branch EXCEPT !.head = heads'[active_branch.name].head]
        steps == checkout_op(rolled, h)
    IN /\ rolled.head < h
       /\ readonly'
       /\ ~crashes(steps)
       /\ apply_steps(tree', steps) = tree
       /\ (h # Len(rolled.commits) - 1) = FALSE

\* C37: for an active branch on its last commit h, with working tree W and
\* readonly false, a rollback to an earlier commit followed by a checkout of
\* h restores head = h, readonly = false and a working tree identical to W.
\* Taken on the working trees that hold no change waiting to be committed.
RollbackCheckoutRestores ==
    [][(/\ setup /\ ~readonly
        /\ HeadInside(active_branch)
        /\ active_branch.head = Len(active_branch.commits) - 1
        /\ dirty = {}
        /\ last'.op = "rollback" /\ last'.res = "ok") => RoundTrip]_vars

\* the part of C37 that holds: the round trip restores a working tree that
\* is what the commits of the branch up to h amount to
RollbackCheckoutRestoresCommitted ==
    [][(/\ setup /\ ~readonly
        /\ HeadInside(active_branch)
        /\ active_branch.head = Len(active_branch.commits) - 1
        /\ tree = Materialised(active_branch)
        /\ last'.op = "rollback" /\ last'.res = "ok") => RoundTrip]_vars

\* C38: clear-cache never removes a shelved diff that is waiting to be
\* committed: the shelving area holds the same files before and after
\* clear-cache runs.
ClearCacheKeepsShelved ==
    [][scan'.result # "none" => ShelvedIn(objects') = ShelvedIn(objects)]_vars

\* the files of a directory among a set of files
EntriesOf(dir, files) == {node \in files : node[1] = dir}

Intact ==
    \A i \in 1..Len(names) :
        /\ heads[names[i]].exists
        /\ \A k \in 1..Len(heads[names[i]].commits) :
             heads[names[i]].commits[k] \in 1..Len(objs)

ShelvedKept ==
    \A b \in HeadNames :
        \A k \in 1..Len(shelved[b].files) :
            \/ \E m \in 1..Len(shelved'[b].files) :
                 shelved'[b].files[m] = shelved[b].files[k]
            \/ \E c \in 1..Len(objs') :
                 \E m \in 1..Len(objs'[c]) : objs'[c][m] = shelved[b].files[k]

StoppedIntact ==
    [][last'.res = "stopped" => Intact' /\ ShelvedKept]_vars

\* the part of C40 that the order of the writes does keep: where a command
\* stops, the commit objects that were in the object store are still there and
\* every commit listed in a branch file has its object
StoppedKeepsObjects ==
    [][last'.res = "stopped" =>
          /\ IsPrefix(objs, objs')
          /\ \A b \in HeadNames :
               heads'[b].exists =>
                   \A k \in 1..Len(heads'[b].commits) :
                       heads'[b].commits[k] \in 1..Len(objs')]_vars

====
